---- MODULE Spec2Model ----
(***************************************************************************)
(* Model of licenses.Libraries (src/licenses/library.go), Library.Name /    *)
(* commonAncestor, and the report loop of reportMain (src/report.go).       *)
(*                                                                          *)
(* Go strings are TLA+ strings; a byte of a string is a one-character       *)
(* string and bytes are ordered by their position in Alphabet, which lists  *)
(* the characters used here in ASCII order.                                 *)
(***************************************************************************)
EXTENDS Integers, Sequences, FiniteSets, TLC

VARIABLES
    includeTests,       \* argument of Libraries
    ignoredPaths,       \* argument of Libraries: sequence of prefixes
    rootPkgs,           \* result of packages.Load: sequence of package IDs
    Imports,            \* the loaded graph: package ID -> set of package IDs
    found,              \* answers given so far by Find: <<pkgDir, moduleDir>> -> license path
    pc,                 \* position in Libraries / reportMain / the Name harness
    seen,               \* packages.Visit: packages already visited
    stack,              \* packages.Visit: pending import lists, innermost first
    pkgs,               \* library.go:74
    pkgsByLicense,      \* library.go:75: license path -> sequence of package IDs
    pkgErrorOccurred,   \* library.go:76
    otherErrorOccurred, \* library.go:77
    todo,               \* keys of pkgsByLicense the range loop has not yielded yet
    libraries,          \* library.go:137: sequence of Library records
    ret,                \* what Libraries returned
    prev,               \* the libraries returned by the previous run on these inputs
    paths,              \* argument slice of commonAncestor (Name harness)
    name,               \* result of commonAncestor (Name harness)
    reportData,         \* report.go:104
    libIdx              \* report.go:105: index of the range loop over libs

vars == <<includeTests, ignoredPaths, rootPkgs, Imports, found, pc, seen, stack,
          pkgs, pkgsByLicense, pkgErrorOccurred, otherErrorOccurred, todo,
          libraries, ret, prev, paths, name, reportData, libIdx>>

-----------------------------------------------------------------------------
(* Bounds of the model *)

\* most import edges in a loaded graph
MaxImports == 2
\* most root packages returned by packages.Load
MaxRoots == 1
\* most elements of the slice handed to commonAncestor in the Name harness
MaxPaths == 3

-----------------------------------------------------------------------------
(* Strings *)

Alphabet == "-./abcdefghijklmnopqrstuvwxyz"

Char(s, i) == SubSeq(s, i, i)

Ord(c) == CHOOSE i \in 1..Len(Alphabet) : Char(Alphabet, i) = c

\* length of the longest common byte prefix of a and b
RECURSIVE CommonLen(_, _, _)
CommonLen(a, b, i) ==
    IF i > Len(a) \/ i > Len(b) \/ Char(a, i) # Char(b, i)
    THEN i - 1
    ELSE CommonLen(a, b, i + 1)

\* Go's a < b on strings: bytewise lexicographic order
StrLess(a, b) ==
    LET k == CommonLen(a, b, 1) IN
    IF k = Len(a) \/ k = Len(b)
    THEN Len(a) < Len(b)
    ELSE Ord(Char(a, k + 1)) < Ord(Char(b, k + 1))

HasPrefix(s, p) == Len(p) <= Len(s) /\ SubSeq(s, 1, Len(p)) = p

HasSuffix(s, p) == Len(p) <= Len(s) /\ SubSeq(s, Len(s) - Len(p) + 1, Len(s)) = p

\* strings.Index, 1-based; 0 when sub does not occur in s
Index(s, sub) ==
    LET hits == {i \in 1..(Len(s) - Len(sub) + 1) : SubSeq(s, i, i + Len(sub) - 1) = sub}
    IN IF hits = {} THEN 0 ELSE CHOOSE i \in hits : \A j \in hits : i <= j

Contains(s, sub) == Index(s, sub) # 0

\* strings.SplitN(s, sep, 2)
SplitN2(s, sep) ==
    LET i == Index(s, sep) IN
    IF i = 0 THEN <<s>>
    ELSE <<SubSeq(s, 1, i - 1), SubSeq(s, i + Len(sep), Len(s))>>

\* strings.Replace(s, old, new, 1)
Replace1(s, old, new) ==
    LET i == Index(s, old) IN
    IF i = 0 THEN s
    ELSE SubSeq(s, 1, i - 1) \o new \o SubSeq(s, i + Len(old), Len(s))

\* index of the last "/" of s, 0 when there is none
LastSlash(s) ==
    LET hits == {i \in 1..Len(s) : Char(s, i) = "/"}
    IN IF hits = {} THEN 0 ELSE CHOOSE i \in hits : \A j \in hits : j <= i

\* filepath.Dir for the cleaned absolute file names used here
Dir(file) ==
    LET i == LastSlash(file) IN
    IF i = 0 THEN "." ELSE IF i = 1 THEN "/" ELSE SubSeq(file, 1, i - 1)

\* insert x into the sorted sequence s
RECURSIVE InsertSorted(_, _)
InsertSorted(x, s) ==
    IF s = <<>> THEN <<x>>
    ELSE IF StrLess(x, Head(s)) THEN <<x>> \o s
    ELSE <<Head(s)>> \o InsertSorted(x, Tail(s))

\* sort.Strings: the slice in increasing order
RECURSIVE SortStrings(_)
SortStrings(s) ==
    IF s = <<>> THEN <<>> ELSE InsertSorted(Head(s), SortStrings(Tail(s)))

Range(s) == {s[i] : i \in 1..Len(s)}

-----------------------------------------------------------------------------
(* Library.Name and commonAncestor, library.go:205-229 *)

\* the for loop of commonAncestor; i is the 1-based position of Go's byte i-1,
\* lastSlashIndex is Go's 0-based value
RECURSIVE AncestorLoop(_, _, _, _)
AncestorLoop(min, max, i, lastSlashIndex) ==
    IF ~(i <= Len(min) /\ i <= Len(max)) THEN min
    ELSE IF Char(min, i) # Char(max, i) THEN SubSeq(min, 1, lastSlashIndex)
    ELSE AncestorLoop(min, max, i + 1, IF Char(min, i) = "/" THEN i - 1 ELSE lastSlashIndex)

\* the slice handed to commonAncestor as the call leaves it: sort.Strings
\* sorts it in place once it has two elements or more
SortedInPlace(ps) == IF Len(ps) <= 1 THEN ps ELSE SortStrings(ps)

commonAncestor(ps) ==
    IF Len(ps) = 0 THEN ""
    ELSE IF Len(ps) = 1 THEN ps[1]
    ELSE LET sorted == SortStrings(ps) IN
         AncestorLoop(sorted[1], sorted[Len(sorted)], 1, 0)

\* (l *Library).Name()
LibName(l) == commonAncestor(l.Packages)

\* the Library a call of l.Name() leaves behind: Packages is the slice that
\* commonAncestor sorted
AfterName(l) == [l EXCEPT !.Packages = SortedInPlace(l.Packages)]

\* (l *Library).Version()
LibVersion(l) == IF l.module.isNil THEN "" ELSE l.module.Version

-----------------------------------------------------------------------------
(* The packages packages.Load can return *)

GOROOT == "/go"

NilModule == [isNil |-> TRUE, Path |-> "", Version |-> "", Dir |-> ""]
ModA == [isNil |-> FALSE, Path |-> "a", Version |-> "v1", Dir |-> "/a"]
\* a module nested in the tree of module a
ModD == [isNil |-> FALSE, Path |-> "a/b/d", Version |-> "v3", Dir |-> "/a/b/d"]
\* a vendored module: the loader reports no directory for it
ModV == [isNil |-> FALSE, Path |-> "v", Version |-> "v2", Dir |-> ""]

Pkg(path, nm, gofiles, errs, mod) ==
    [PkgPath |-> path, Name |-> nm, GoFiles |-> gofiles, CompiledGoFiles |-> gofiles,
     OtherFiles |-> <<>>, Errors |-> errs, Module |-> mod]

\* package ID -> packages.Package, listed in the order imports may point
\* (a package imports only packages listed after it, Go import graphs being acyclic)
PkgIDs == <<"a/b", "a/b.test", "a/b/d", "a/b/c", "a/b/c [a/b.test]", "a/z", "a/n",
            "fmt", "v/x", "b/e">>

Pkgs == Range(PkgIDs)

Rank(p) == CHOOSE i \in 1..Len(PkgIDs) : PkgIDs[i] = p

PkgInfo ==
    [p \in Pkgs |->
        CASE p = "a/b"      -> Pkg("a/b", "b", <<"/a/b/b.go">>, <<>>, ModA)
          [] p = "a/b.test" -> Pkg("a/b.test", "main", <<"/cache/b.test/m.go">>, <<>>, ModA)
          [] p = "a/b/d"    -> Pkg("a/b/d", "d", <<"/a/b/d/d.go">>, <<>>, ModD)
          [] p = "a/b/c"    -> Pkg("a/b/c", "c", <<"/a/b/c/c.go">>, <<>>, ModA)
          \* the variant of a/b/c compiled for the test of a/b: same import path
          [] p = "a/b/c [a/b.test]" ->
                 Pkg("a/b/c", "c", <<"/a/b/c/c.go", "/a/b/c/c_test.go">>, <<>>, ModA)
          \* a package without files
          [] p = "a/z"      -> Pkg("a/z", "z", <<>>, <<>>, ModA)
          \* a package outside any module
          [] p = "a/n"      -> Pkg("a/n", "n", <<"/n/n.go">>, <<>>, NilModule)
          [] p = "fmt"      -> Pkg("fmt", "fmt", <<"/go/src/fmt/f.go">>, <<>>, NilModule)
          [] p = "v/x"      -> Pkg("v/x", "x", <<"/a/vendor/v/x/x.go">>, <<>>, ModV)
          [] p = "b/e"      -> Pkg("b/e", "e", <<"/b/e/e.go">>, <<"load error">>, ModA)]

\* the ignore lists Libraries is called with
IgnoreChoices == {<<>>, <<"v/x/", "a/b/c">>}

\* the license paths Find can answer with ("" is no license found)
LicensePaths == {"", "/a/LICENSE", "/a/vendor/v/LICENSE"}

-----------------------------------------------------------------------------
(* Helpers of Libraries *)

\* isStdLib, library.go:294-309
isStdLib(pkg) ==
    IF pkg.Name = "unsafe" THEN TRUE
    ELSE IF Len(pkg.GoFiles) = 0 THEN FALSE
    ELSE LET prefix == IF HasSuffix(GOROOT, "/") THEN GOROOT ELSE GOROOT \o "/"
         IN HasPrefix(pkg.GoFiles[1], prefix)

\* isTestBinary, library.go:311-314
isTestBinary(pkg) == HasSuffix(pkg.PkgPath, ".test")

\* the loop over ignoredPaths, library.go:93-98
isIgnored(pkg, ignored) ==
    \E k \in 1..Len(ignored) : HasPrefix(pkg.PkgPath, ignored[k])

\* the switch choosing pkgDir, library.go:103-114; "" stands for the default
\* case (the package is empty)
PkgDir(pkg) ==
    IF Len(pkg.GoFiles) > 0 THEN Dir(pkg.GoFiles[1])
    ELSE IF Len(pkg.CompiledGoFiles) > 0 THEN Dir(pkg.CompiledGoFiles[1])
    ELSE IF Len(pkg.OtherFiles) > 0 THEN Dir(pkg.OtherFiles[1])
    ELSE ""

\* newModule: the Module of the report, copied from the loader's module
newModule(mod) ==
    [isNil |-> FALSE, Path |-> mod.Path, Version |-> mod.Version, Dir |-> mod.Dir]

\* Classify with the ignore loop left out: an ignored package is looked up and
\* recorded like any other
Classify_RecordsIgnored(pkg, tests, ignored) ==
    IF Len(pkg.Errors) > 0 THEN "errors"
    ELSE IF isStdLib(pkg) THEN "stdlib"
    ELSE IF tests /\ isTestBinary(pkg) THEN "testbinary"
    ELSE IF PkgDir(pkg) = "" THEN "empty"
    ELSE IF pkg.Module.isNil THEN "nomodule"
    ELSE "find"

\* which return of the callback handed to packages.Visit the package takes,
\* library.go:78-127
Classify(pkg, tests, ignored) ==
    IF Len(pkg.Errors) > 0 THEN "errors"
    ELSE IF isStdLib(pkg) THEN "stdlib"
    ELSE IF tests /\ isTestBinary(pkg) THEN "testbinary"
    ELSE IF isIgnored(pkg, ignored) THEN "ignored"
    ELSE IF PkgDir(pkg) = "" THEN "empty"
    ELSE IF pkg.Module.isNil THEN "nomodule"
    ELSE "find"

\* Descends with "return false" for an ignored package
Descends_StopsAtIgnored(class) == class \in {"empty", "find"}

\* the callback's result: whether packages.Visit goes on to the imports
Descends(class) == class \in {"ignored", "empty", "find"}

\* the import paths of a package's imports in the order packages.Visit walks
\* them: sort.Strings of the keys of pkg.Imports
RECURSIVE SetToSeq(_)
SetToSeq(S) ==
    IF S = {} THEN <<>>
    ELSE LET x == CHOOSE x \in S : TRUE IN <<x>> \o SetToSeq(S \ {x})

SortedImports(p, imports) ==
    LET keys == SortStrings(SetToSeq({PkgInfo[q].PkgPath : q \in imports[p]}))
    IN [i \in 1..Len(keys) |-> CHOOSE q \in imports[p] : PkgInfo[q].PkgPath = keys[i]]

\* packages.Visit's pending work without what it skips: lists that are used
\* up and packages it has seen
RECURSIVE Settle(_, _)
Settle(st, done) ==
    IF st = <<>> THEN <<>>
    ELSE IF Head(st) = <<>> THEN Settle(Tail(st), done)
    ELSE IF Head(Head(st)) \in done THEN Settle(<<Tail(Head(st))>> \o Tail(st), done)
    ELSE st

\* the packages reachable from the roots through imports
RECURSIVE ReachFrom(_, _)
ReachFrom(S, imports) ==
    LET T == S \cup UNION {imports[p] : p \in S}
    IN IF T = S THEN S ELSE ReachFrom(T, imports)

Loaded == ReachFrom(Range(rootPkgs), Imports)

NumImports == LET RECURSIVE Sum(_)
                  Sum(S) == IF S = {} THEN 0
                            ELSE LET p == CHOOSE p \in S : TRUE
                                 IN Cardinality(Imports[p]) + Sum(S \ {p})
              IN Sum(Pkgs)

\* the Library built for one non-empty license path, library.go:149-158
RECURSIVE FirstModule(_)
FirstModule(bucket) ==
    IF bucket = <<>> THEN NilModule
    ELSE IF ~PkgInfo[Head(bucket)].Module.isNil THEN newModule(PkgInfo[Head(bucket)].Module)
    ELSE FirstModule(Tail(bucket))

NewLibrary(licensePath, bucket) ==
    [LicensePath |-> licensePath,
     Packages    |-> [i \in 1..Len(bucket) |-> PkgInfo[bucket[i]].PkgPath],
     module      |-> FirstModule(bucket)]

\* the first root package whose module directory is dir, library.go:180-186;
\* <<>> when there is none
RECURSIVE ParentPkg(_, _)
ParentPkg(roots, dir) ==
    IF roots = <<>> THEN <<>>
    ELSE IF ~PkgInfo[Head(roots)].Module.isNil /\ PkgInfo[Head(roots)].Module.Dir = dir
         THEN <<Head(roots)>>
    ELSE ParentPkg(Tail(roots), dir)

\* ResolveVendored without the test that the module directory is empty
ResolveVendored_NoDirCheck(lib, roots) ==
    IF ~lib.module.isNil /\ lib.module.Path # ""
    THEN LET splits == SplitN2(lib.LicensePath, "/vendor/") IN
         IF Len(splits) # 2 THEN lib
         ELSE LET parentPkg == ParentPkg(roots, splits[1]) IN
              IF parentPkg = <<>> THEN lib
              ELSE [lib EXCEPT !.module = newModule(PkgInfo[parentPkg[1]].Module)]
    ELSE lib

\* the vendoring special case, library.go:159-195
ResolveVendored(lib, roots) ==
    IF ~lib.module.isNil /\ lib.module.Path # "" /\ lib.module.Dir = ""
    THEN LET splits == SplitN2(lib.LicensePath, "/vendor/") IN
         IF Len(splits) # 2 THEN lib
         ELSE LET parentPkg == ParentPkg(roots, splits[1]) IN
              IF parentPkg = <<>> THEN lib
              ELSE [lib EXCEPT !.module = newModule(PkgInfo[parentPkg[1]].Module)]
    ELSE lib

\* LibrariesFor without the special case of the empty license path
LibrariesFor_MergesUnlicensed(licensePath, bucket, roots) ==
    <<ResolveVendored(NewLibrary(licensePath, bucket), roots)>>

\* what one iteration of the range over pkgsByLicense appends, library.go:138-197
LibrariesFor(licensePath, bucket, roots) ==
    IF licensePath = ""
    THEN [i \in 1..Len(bucket) |->
            [LicensePath |-> "",
             Packages    |-> <<PkgInfo[bucket[i]].PkgPath>>,
             module      |-> newModule(PkgInfo[bucket[i]].Module)]]
    ELSE <<ResolveVendored(NewLibrary(licensePath, bucket), roots)>>

\* the less function of the final sort, library.go:199-201
LibLess(a, b) == StrLess(LibName(a), LibName(b))

\* the orders sort.Slice may leave n libraries in: any permutation in which
\* no library stands before one that is less (the sort is not stable)
SortedOrders(libs) ==
    {f \in Permutations(1..Len(libs)) :
        \A i, j \in 1..Len(libs) : i < j => ~LibLess(libs[f[j]], libs[f[i]])}

\* the libraries after sort.Slice: every library has had Name() called on it
\* as soon as there are two to compare
SortSlice(libs, f) ==
    IF Len(libs) < 2 THEN libs
    ELSE [i \in 1..Len(libs) |-> AfterName(libs[f[i]])]

-----------------------------------------------------------------------------
(* Libraries, library.go:62-203 *)

EmptyMap == [k \in {} |-> <<>>]

Put(m, k, v) == [x \in DOMAIN m \cup {k} |-> IF x = k THEN v ELSE m[x]]

\* a test binary and the test variant of a package are loaded only with Tests set
Loadable(p, tests) == p \in {"a/b.test", "a/b/c [a/b.test]"} => tests

\* the packages the import path arguments can name
RootCandidates == {"a/b", "v/x"}

RootChoices ==
    {r \in UNION {[1..n -> RootCandidates] : n \in 1..MaxRoots} :
        \A i, j \in 1..Len(r) : i # j => r[i] # r[j]}

\* the state of Libraries before packages.Visit, library.go:74-77
Fresh ==
    /\ seen = {}
    /\ stack = <<>>
    /\ pkgs = EmptyMap
    /\ pkgsByLicense = EmptyMap
    /\ pkgErrorOccurred = FALSE
    /\ otherErrorOccurred = FALSE
    /\ todo = {}
    /\ libraries = <<>>
    /\ ret = "none"

Idle ==
    /\ prev = <<>>
    /\ paths = <<>>
    /\ name = ""
    /\ reportData = <<>>
    /\ libIdx = 0

Init ==
    /\ includeTests \in BOOLEAN
    /\ ignoredPaths \in IgnoreChoices
    /\ rootPkgs \in RootChoices
    /\ \A i \in 1..Len(rootPkgs) : Loadable(rootPkgs[i], includeTests)
    /\ Imports = [p \in Pkgs |-> {}]
    /\ found = EmptyMap
    /\ pc = "load"
    /\ Fresh
    /\ Idle

\* packages.Load resolves one more import of a loaded package, library.go:69
LoadImport ==
    /\ pc = "load"
    /\ NumImports < MaxImports
    /\ \E p \in Loaded, q \in Pkgs :
        /\ Rank(p) < Rank(q)
        /\ Loadable(q, includeTests)
        /\ \A r \in Imports[p] : PkgInfo[r].PkgPath # PkgInfo[q].PkgPath
        /\ Imports' = [Imports EXCEPT ![p] = @ \cup {q}]
    /\ UNCHANGED <<includeTests, ignoredPaths, rootPkgs, found, pc, seen, stack, pkgs,
                   pkgsByLicense, pkgErrorOccurred, otherErrorOccurred, todo,
                   libraries, ret, prev, paths, name, reportData, libIdx>>

\* packages.Load fails and Libraries returns its error, library.go:69-72
LoadFails ==
    /\ pc = "load"
    /\ NumImports = 0
    /\ pc' = "done"
    /\ ret' = "LoadError"
    /\ UNCHANGED <<includeTests, ignoredPaths, rootPkgs, Imports, found, seen, stack,
                   pkgs, pkgsByLicense, pkgErrorOccurred, otherErrorOccurred, todo,
                   libraries, prev, paths, name, reportData, libIdx>>

\* packages.Load returns the graph and packages.Visit starts on the roots,
\* library.go:69-78
StartVisit ==
    /\ pc = "load"
    /\ pc' = "visit"
    /\ stack' = Settle(<<rootPkgs>>, {})
    /\ UNCHANGED <<includeTests, ignoredPaths, rootPkgs, Imports, found, seen, pkgs,
                   pkgsByLicense, pkgErrorOccurred, otherErrorOccurred, todo,
                   libraries, ret, prev, paths, name, reportData, libIdx>>

\* the answers Find can give for a package: the one it gave before for the
\* same directories, or any license path
FindKey(pkg) == <<PkgDir(pkg), pkg.Module.Dir>>

FindAnswers(pkg, answers) ==
    IF FindKey(pkg) \in DOMAIN answers THEN {answers[FindKey(pkg)]} ELSE LicensePaths

\* packages.Visit calls the callback on the next package it has not seen,
\* library.go:78-127
VisitPkg ==
    /\ pc = "visit"
    /\ stack # <<>>
    /\ LET p     == Head(Head(stack))
           pkg   == PkgInfo[p]
           rest  == <<Tail(Head(stack))>> \o Tail(stack)
           class == Classify(pkg, includeTests, ignoredPaths)
           next  == IF Descends(class) THEN <<SortedImports(p, Imports)>> \o rest ELSE rest
       IN /\ seen' = seen \cup {p}
          /\ stack' = Settle(next, seen')
          /\ pkgErrorOccurred' = (pkgErrorOccurred \/ class = "errors")
          /\ otherErrorOccurred' = (otherErrorOccurred \/ class = "nomodule")
          /\ IF class = "find"
             THEN \E licensePath \in FindAnswers(pkg, found) :
                    /\ found' = Put(found, FindKey(pkg), licensePath)
                    /\ pkgs' = Put(pkgs, pkg.PkgPath, p)
                    /\ pkgsByLicense' =
                         Put(pkgsByLicense, licensePath,
                             IF licensePath \in DOMAIN pkgsByLicense
                             THEN Append(pkgsByLicense[licensePath], p)
                             ELSE <<p>>)
             ELSE UNCHANGED <<found, pkgs, pkgsByLicense>>
    /\ UNCHANGED <<includeTests, ignoredPaths, rootPkgs, Imports, pc, todo, libraries,
                   ret, prev, paths, name, reportData, libIdx>>

\* FinishVisit with the check of pkgErrorOccurred left out
FinishVisit_IgnoresPkgError ==
    /\ pc = "visit"
    /\ stack = <<>>
    /\ IF otherErrorOccurred
       THEN pc' = "done" /\ ret' = "error" /\ todo' = todo
       ELSE pc' = "group" /\ ret' = ret /\ todo' = DOMAIN pkgsByLicense
    /\ UNCHANGED <<includeTests, ignoredPaths, rootPkgs, Imports, found, seen, stack,
                   pkgs, pkgsByLicense, pkgErrorOccurred, otherErrorOccurred,
                   libraries, prev, paths, name, reportData, libIdx>>

\* FinishVisit with the two error checks in the other order
FinishVisit_OtherFirst ==
    /\ pc = "visit"
    /\ stack = <<>>
    /\ IF otherErrorOccurred
       THEN pc' = "done" /\ ret' = "error" /\ todo' = todo
       ELSE IF pkgErrorOccurred
       THEN pc' = "done" /\ ret' = "PackagesError" /\ todo' = todo
       ELSE pc' = "group" /\ ret' = ret /\ todo' = DOMAIN pkgsByLicense
    /\ UNCHANGED <<includeTests, ignoredPaths, rootPkgs, Imports, found, seen, stack,
                   pkgs, pkgsByLicense, pkgErrorOccurred, otherErrorOccurred,
                   libraries, prev, paths, name, reportData, libIdx>>

\* packages.Visit has returned: the two error checks, then the range over
\* pkgsByLicense begins, library.go:128-138
FinishVisit ==
    /\ pc = "visit"
    /\ stack = <<>>
    /\ IF pkgErrorOccurred
       THEN pc' = "done" /\ ret' = "PackagesError" /\ todo' = todo
       ELSE IF otherErrorOccurred
       THEN pc' = "done" /\ ret' = "error" /\ todo' = todo
       ELSE pc' = "group" /\ ret' = ret /\ todo' = DOMAIN pkgsByLicense
    /\ UNCHANGED <<includeTests, ignoredPaths, rootPkgs, Imports, found, seen, stack,
                   pkgs, pkgsByLicense, pkgErrorOccurred, otherErrorOccurred,
                   libraries, prev, paths, name, reportData, libIdx>>

\* one iteration of the range over pkgsByLicense, which yields the keys in no
\* fixed order, library.go:138-197
GroupLicense ==
    /\ pc = "group"
    /\ \E licensePath \in todo :
        /\ todo' = todo \ {licensePath}
        /\ libraries' =
             libraries \o LibrariesFor(licensePath, pkgsByLicense[licensePath], rootPkgs)
    /\ UNCHANGED <<includeTests, ignoredPaths, rootPkgs, Imports, found, pc, seen, stack,
                   pkgs, pkgsByLicense, pkgErrorOccurred, otherErrorOccurred, ret,
                   prev, paths, name, reportData, libIdx>>

\* sort.Slice by Name() and the return, library.go:198-202
SortLibraries ==
    /\ pc = "group"
    /\ todo = {}
    /\ \E f \in SortedOrders(libraries) : libraries' = SortSlice(libraries, f)
    /\ pc' = "done"
    /\ ret' = "ok"
    /\ UNCHANGED <<includeTests, ignoredPaths, rootPkgs, Imports, found, seen, stack,
                   pkgs, pkgsByLicense, pkgErrorOccurred, otherErrorOccurred, todo,
                   prev, paths, name, reportData, libIdx>>

Next ==
    \/ LoadImport
    \/ LoadFails
    \/ StartVisit
    \/ VisitPkg
    \/ FinishVisit
    \/ GroupLicense
    \/ SortLibraries

Spec == Init /\ [][Next]_vars

-----------------------------------------------------------------------------
(* Running Libraries again on the same inputs *)

\* a second call of Libraries with the same arguments, the same loaded graph
\* and the same answers of Find, library.go:62-78
Rerun ==
    /\ pc = "done"
    /\ ret = "ok"
    /\ prev = <<>>
    /\ prev' = <<libraries>>
    /\ pc' = "visit"
    /\ stack' = Settle(<<rootPkgs>>, {})
    /\ seen' = {}
    /\ pkgs' = EmptyMap
    /\ pkgsByLicense' = EmptyMap
    /\ pkgErrorOccurred' = FALSE
    /\ otherErrorOccurred' = FALSE
    /\ todo' = {}
    /\ libraries' = <<>>
    /\ ret' = "none"
    /\ UNCHANGED <<includeTests, ignoredPaths, rootPkgs, Imports, found, paths, name,
                   reportData, libIdx>>

NextRerun == Next \/ Rerun

SpecRerun == Init /\ [][NextRerun]_vars

-----------------------------------------------------------------------------
(* commonAncestor on its own *)

\* the import paths handed to commonAncestor
PathUniverse == {"a", "a/b", "a/bc", "a/bd", "a/b/c", "a/b/d", "b/e"}

InitName ==
    /\ includeTests = FALSE
    /\ ignoredPaths = <<>>
    /\ rootPkgs = <<>>
    /\ Imports = [p \in Pkgs |-> {}]
    /\ found = EmptyMap
    /\ pc = "name"
    /\ Fresh
    /\ prev = <<>>
    /\ paths \in UNION {[1..n -> PathUniverse] : n \in 0..MaxPaths}
    /\ name = ""
    /\ reportData = <<>>
    /\ libIdx = 0

\* a call of commonAncestor(paths), library.go:210-229
CallCommonAncestor ==
    /\ pc = "name"
    /\ name' = commonAncestor(paths)
    /\ paths' = SortedInPlace(paths)
    /\ pc' = "named"
    /\ UNCHANGED <<includeTests, ignoredPaths, rootPkgs, Imports, found, seen, stack,
                   pkgs, pkgsByLicense, pkgErrorOccurred, otherErrorOccurred, todo,
                   libraries, ret, prev, reportData, libIdx>>

NextName == CallCommonAncestor

SpecName == InitName /\ [][NextName]_vars

-----------------------------------------------------------------------------
(* reportMain, report.go:93-160 *)

UNKNOWN == "Unknown"

\* the URLs source.ModuleInfo's descriptor can build for a license file
Urls == {"https://github.com/a/blob/v1/LICENSE",
         "https://cs.opensource.google/go/a/LICENSE",
         "https://gitlab.com/a/-/blob/v1/LICENSE"}

\* the outcomes of (l *Library).FileURL, library.go:237-285: <<>> is an error,
\* <<url>> a URL
FileURL(l) ==
    IF l.module.isNil THEN {<<>>}
    ELSE IF l.module.Dir = "" THEN {<<>>}
    ELSE {<<>>} \cup {<<u>> : u \in Urls}

\* the libraryData the loop starts from, report.go:106-117
NewLibData(lib) ==
    [Name        |-> LibName(lib),
     ShortName   |-> LibName(lib),
     Version     |-> IF Len(LibVersion(lib)) = 0 THEN UNKNOWN ELSE LibVersion(lib),
     LicenseURL  |-> UNKNOWN,
     LicenseName |-> UNKNOWN,
     License     |-> UNKNOWN]

\* the URL the license text is fetched from, report.go:128-132
DownloadURL(url) ==
    IF Contains(url, "github")
    THEN Replace1(Replace1(url, "github.com", "raw.githubusercontent.com"), "blob/", "")
    ELSE url

\* what one iteration of the loop over libs leaves in reportData,
\* report.go:105-153. identified is the result of classifier.Identify (<<>> an
\* error), url the result of FileURL, got whether http.Get succeeds, read
\* whether io.ReadAll succeeds.
ReportOne(data, lib, identified, url, got, read) ==
    LET d0 == NewLibData(lib)
        d1 == IF identified # <<>> THEN [d0 EXCEPT !.LicenseName = identified[1]] ELSE d0
    IN IF lib.LicensePath = "" THEN Append(data, d0)
       ELSE IF url = <<>> THEN Append(data, d1)
       ELSE LET d2 == [d1 EXCEPT !.LicenseURL = url[1],
                                 !.ShortName =
                                     IF Contains(url[1], "github")
                                     THEN Replace1(LibName(lib), "github.com/", "")
                                     ELSE @]
            IN IF ~Contains(DownloadURL(url[1]), "opensource.google")
               THEN IF ~got THEN data
                    ELSE IF ~read THEN data
                    ELSE Append(data, [d2 EXCEPT !.License = "license text"])
               ELSE Append(data, [d2 EXCEPT !.License =
                                    "<PLACEHOLDER_" \o d2.LicenseName \o ">"])

\* licenses.NewClassifier fails and reportMain returns its error, report.go:94-97
ClassifierFails ==
    /\ pc = "load"
    /\ NumImports = 0
    /\ pc' = "failed"
    /\ UNCHANGED <<includeTests, ignoredPaths, rootPkgs, Imports, found, seen, stack,
                   pkgs, pkgsByLicense, pkgErrorOccurred, otherErrorOccurred, todo,
                   libraries, ret, prev, paths, name, reportData, libIdx>>

\* Libraries returned an error and reportMain returns it, report.go:99-102
ReturnError ==
    /\ pc = "done"
    /\ ret # "ok"
    /\ pc' = "failed"
    /\ UNCHANGED <<includeTests, ignoredPaths, rootPkgs, Imports, found, seen, stack,
                   pkgs, pkgsByLicense, pkgErrorOccurred, otherErrorOccurred, todo,
                   libraries, ret, prev, paths, name, reportData, libIdx>>

\* one iteration of the loop over libs, report.go:105-153; lib.Name() sorts
\* the Packages of the Library it is called on
ReportLibrary ==
    /\ (pc = "done" /\ ret = "ok") \/ pc = "report"
    /\ libIdx < Len(libraries)
    /\ LET lib == libraries[libIdx + 1] IN
        \E identified \in {<<>>, <<"MIT">>}, url \in FileURL(lib), got, read \in BOOLEAN :
            reportData' = ReportOne(reportData, lib, identified, url, got, read)
    /\ libraries' = [libraries EXCEPT ![libIdx + 1] = AfterName(@)]
    /\ libIdx' = libIdx + 1
    /\ pc' = "report"
    /\ UNCHANGED <<includeTests, ignoredPaths, rootPkgs, Imports, found, seen, stack,
                   pkgs, pkgsByLicense, pkgErrorOccurred, otherErrorOccurred, todo,
                   ret, prev, paths, name>>

\* the loop is over and reportData goes to reportCSV or reportTemplate,
\* report.go:155-159
FinishReport ==
    /\ (pc = "done" /\ ret = "ok") \/ pc = "report"
    /\ libIdx = Len(libraries)
    /\ pc' = "reported"
    /\ UNCHANGED <<includeTests, ignoredPaths, rootPkgs, Imports, found, seen, stack,
                   pkgs, pkgsByLicense, pkgErrorOccurred, otherErrorOccurred, todo,
                   libraries, ret, prev, paths, name, reportData, libIdx>>

NextReport ==
    \/ Next
    \/ ClassifierFails
    \/ ReturnError
    \/ ReportLibrary
    \/ FinishReport

SpecReport == Init /\ [][NextReport]_vars

-----------------------------------------------------------------------------
(* Vocabulary of the properties *)

Succeeded == pc = "done" /\ ret = "ok"

Failed(err) == pc = "done" /\ ret = err

HasFiles(pkg) == Len(pkg.GoFiles) + Len(pkg.CompiledGoFiles) + Len(pkg.OtherFiles) > 0

\* the positions <<library, member>> of the returned Packages lists
Entries ==
    UNION {{<<i, k>> : k \in 1..Len(libraries[i].Packages)} : i \in 1..Len(libraries)}

EntryPath(e) == libraries[e[1]].Packages[e[2]]

Occurrences(x) == Cardinality({e \in Entries : EntryPath(e) = x})

\* a package the traversal reached that has no load errors, is not
\* standard-library, is not a skipped test binary, has a file and has module info
Survives(p) ==
    /\ p \in seen
    /\ Len(PkgInfo[p].Errors) = 0
    /\ ~isStdLib(PkgInfo[p])
    /\ ~(includeTests /\ isTestBinary(PkgInfo[p]))
    /\ HasFiles(PkgInfo[p])
    /\ ~PkgInfo[p].Module.isNil

Ignored(p) == isIgnored(PkgInfo[p], ignoredPaths)

\* a surviving package that matches no ignore prefix
Recorded(p) == Survives(p) /\ ~Ignored(p)

\* the license path Find returned for a recorded package
LicenseOf(p) == found[FindKey(PkgInfo[p])]

\* two packages have an entry each in one Packages list
InSameLibrary(p, q) ==
    \E i \in 1..Len(libraries) : \E k1, k2 \in 1..Len(libraries[i].Packages) :
        /\ k1 # k2
        /\ libraries[i].Packages[k1] = PkgInfo[p].PkgPath
        /\ libraries[i].Packages[k2] = PkgInfo[q].PkgPath

-----------------------------------------------------------------------------
(* C1 *)

\* C1 as claimed: on success every surviving package's import path occurs
\* exactly once over all returned Packages lists, and every entry is the import
\* path of a surviving package.
C1_PartitionOfSurviving ==
    Succeeded =>
        /\ \A p \in seen : Survives(p) => Occurrences(PkgInfo[p].PkgPath) = 1
        /\ \A e \in Entries : \E p \in seen : Survives(p) /\ PkgInfo[p].PkgPath = EntryPath(e)

\* C1 amended: on success the returned Packages lists hold exactly one entry per
\* recorded package (surviving and matching no ignore prefix): every import
\* path occurs as often as there are recorded packages with that import path,
\* so none occurs that no recorded package has.
C1_PartitionOfRecorded ==
    Succeeded =>
        \A x \in {PkgInfo[p].PkgPath : p \in seen} \cup {EntryPath(e) : e \in Entries} :
            Occurrences(x) = Cardinality({p \in seen : Recorded(p) /\ PkgInfo[p].PkgPath = x})

\* a successful run that recorded two packages and passed over an ignored one
C1_Witness ==
    /\ Succeeded
    /\ \E p \in seen : Survives(p) /\ Ignored(p)
    /\ Cardinality({p \in seen : Recorded(p)}) >= 2

-----------------------------------------------------------------------------
(* C2 *)

\* C2: on success two distinct surviving packages have their entries in one
\* Library exactly when Find returned the same non-empty license path for
\* both, and a package for which Find returned "" is the only entry of every
\* Library that holds its import path, each with an empty LicensePath.
C2_GroupedByLicense ==
    Succeeded =>
        /\ \A p, q \in seen :
            (p # q /\ Survives(p) /\ Survives(q)) =>
                (InSameLibrary(p, q) <=>
                    /\ Recorded(p)
                    /\ Recorded(q)
                    /\ LicenseOf(p) = LicenseOf(q)
                    /\ LicenseOf(p) # "")
        /\ \A p \in seen :
            (Recorded(p) /\ LicenseOf(p) = "") =>
                /\ Occurrences(PkgInfo[p].PkgPath) >= 1
                /\ \A i \in 1..Len(libraries) :
                    (\E k \in 1..Len(libraries[i].Packages) :
                        libraries[i].Packages[k] = PkgInfo[p].PkgPath)
                    => /\ libraries[i].Packages = <<PkgInfo[p].PkgPath>>
                       /\ libraries[i].LicensePath = ""

\* a successful run with two packages under one license and two without any
C2_Witness ==
    /\ Succeeded
    /\ \E p, q \in seen :
        /\ p # q /\ Recorded(p) /\ Recorded(q)
        /\ LicenseOf(p) = LicenseOf(q) /\ LicenseOf(p) # ""
        /\ InSameLibrary(p, q)
    /\ \E r \in seen : Recorded(r) /\ LicenseOf(r) = ""

-----------------------------------------------------------------------------
(* C5 *)

\* whether packages.Visit goes on to the imports of a package, read off the
\* package alone
CanDescend(p) ==
    /\ Len(PkgInfo[p].Errors) = 0
    /\ ~isStdLib(PkgInfo[p])
    /\ ~(includeTests /\ isTestBinary(PkgInfo[p]))
    /\ (Ignored(p) \/ ~HasFiles(PkgInfo[p]) \/ ~PkgInfo[p].Module.isNil)

\* the roots and every import of a package of the set that is descended into
RECURSIVE WalkFrom(_)
WalkFrom(S) ==
    LET T == S \cup UNION {Imports[p] : p \in {x \in S : CanDescend(x)}}
    IN IF T = S THEN S ELSE WalkFrom(T)

Walked == WalkFrom(Range(rootPkgs))

HasErrors(p) == Len(PkgInfo[p].Errors) > 0

\* C5 as claimed: once Libraries has returned with a loaded graph, a load error
\* in any package reachable from the roots through imports means the result is
\* a PackagesError and no Libraries.
C5_AnyLoadErrorAborts ==
    (pc = "done" /\ ret # "LoadError") =>
        ((\E p \in Loaded : HasErrors(p)) => (ret = "PackagesError" /\ libraries = <<>>))

\* C5 amended: a load error in a package the traversal reaches (a root, or an
\* import of a reached package that is descended into) means the result is a
\* PackagesError and no Libraries.
C5_WalkedLoadErrorAborts ==
    (pc = "done" /\ ret # "LoadError") =>
        ((\E p \in Walked : HasErrors(p)) => (ret = "PackagesError" /\ libraries = <<>>))

\* Libraries returned a PackagesError for a load error below the roots, after
\* it had recorded a package
C5_Witness ==
    /\ Failed("PackagesError")
    /\ \E p \in seen : HasErrors(p) /\ p \notin Range(rootPkgs)
    /\ pkgsByLicense # EmptyMap
    /\ libraries = <<>>

-----------------------------------------------------------------------------
(* C7 *)

\* the packages reachable from the roots without following the imports of a
\* package that matches an ignore prefix
RECURSIVE AroundIgnored(_)
AroundIgnored(S) ==
    LET T == S \cup UNION {Imports[p] : p \in {x \in S : ~Ignored(x)}}
    IN IF T = S THEN S ELSE AroundIgnored(T)

OnlyThroughIgnored(q) == q \in Loaded /\ q \notin AroundIgnored(Range(rootPkgs))

\* a package that the callback looks up and records when it is visited
Eligible(q) ==
    /\ ~HasErrors(q)
    /\ ~isStdLib(PkgInfo[q])
    /\ ~(includeTests /\ isTestBinary(PkgInfo[q]))
    /\ ~Ignored(q)
    /\ HasFiles(PkgInfo[q])
    /\ ~PkgInfo[q].Module.isNil

\* C7 as claimed: on success an ignored package (otherwise surviving) has an
\* entry in a Library, and a package reachable only through ignored packages
\* is neither looked up nor in any Library.
C7_IgnoredRecordedNotDescended ==
    Succeeded =>
        /\ \A p \in seen :
            (Survives(p) /\ Ignored(p)) => Occurrences(PkgInfo[p].PkgPath) >= 1
        /\ \A q \in Loaded :
            OnlyThroughIgnored(q) =>
                /\ q \notin seen
                /\ Occurrences(PkgInfo[q].PkgPath) = 0

\* C7 amended: no Library holds an import path that starts with an ignore
\* prefix, and the traversal goes on to the imports of an ignored package:
\* each of them is visited and, when it is eligible itself, looked up by Find
\* and given an entry in a Library.
C7_IgnoredSkippedButDescended ==
    /\ (pc = "done" /\ ret # "LoadError") =>
        \A p \in seen :
            (Ignored(p) /\ ~HasErrors(p) /\ ~isStdLib(PkgInfo[p])
                /\ ~(includeTests /\ isTestBinary(PkgInfo[p])))
            => Imports[p] \subseteq seen
    /\ Succeeded =>
        /\ \A e \in Entries : \A k \in 1..Len(ignoredPaths) :
            ~HasPrefix(EntryPath(e), ignoredPaths[k])
        /\ \A p \in seen : \A q \in Imports[p] :
            (Ignored(p) /\ Eligible(q)) =>
                /\ FindKey(PkgInfo[q]) \in DOMAIN found
                /\ Occurrences(PkgInfo[q].PkgPath) >= 1

\* a successful run in which an eligible package was reached only through an
\* ignored package
C7_Witness ==
    /\ Succeeded
    /\ \E p \in seen : \E q \in Imports[p] :
        /\ Ignored(p)
        /\ Eligible(q)
        /\ OnlyThroughIgnored(q)
        /\ Occurrences(PkgInfo[q].PkgPath) = 1

-----------------------------------------------------------------------------
(* C8 *)

\* the positions at which "/vendor/" starts in a license path
VendorAt(lp) == {i \in 1..Len(lp) : i + 7 <= Len(lp) /\ SubSeq(lp, i, i + 7) = "/vendor/"}

\* the part of a license path before its first "/vendor/"
BeforeVendor(lp) ==
    LET i == CHOOSE i \in VendorAt(lp) : \A j \in VendorAt(lp) : i <= j
    IN SubSeq(lp, 1, i - 1)

\* the root packages, by position, whose module directory is dir
RootsAt(dir) ==
    {k \in 1..Len(rootPkgs) :
        ~PkgInfo[rootPkgs[k]].Module.isNil /\ PkgInfo[rootPkgs[k]].Module.Dir = dir}

SameModule(m, mod) ==
    /\ ~m.isNil
    /\ m.Path = mod.Path
    /\ m.Version = mod.Version
    /\ m.Dir = mod.Dir

\* the first package recorded under the license path of a Library
FirstMember(lib) == PkgInfo[pkgsByLicense[lib.LicensePath][1]]

\* C8: on success a Library whose first member's module has a path and no
\* directory and whose license path contains "/vendor/" carries the module of
\* the first root package whose module directory is the part of the license
\* path before the first "/vendor/"; without such a root, without "/vendor/",
\* or with a module directory, it carries its first member's module.
C8_VendoredReattributed ==
    Succeeded =>
        \A i \in 1..Len(libraries) :
            LET lib == libraries[i] IN
            IF lib.LicensePath = ""
            THEN \E p \in seen :
                    /\ Recorded(p)
                    /\ lib.Packages = <<PkgInfo[p].PkgPath>>
                    /\ SameModule(lib.module, PkgInfo[p].Module)
            ELSE LET m0 == FirstMember(lib).Module
                     vendored == /\ m0.Path # ""
                                 /\ m0.Dir = ""
                                 /\ VendorAt(lib.LicensePath) # {}
                 IN IF vendored /\ RootsAt(BeforeVendor(lib.LicensePath)) # {}
                    THEN LET k == CHOOSE k \in RootsAt(BeforeVendor(lib.LicensePath)) :
                                    \A j \in RootsAt(BeforeVendor(lib.LicensePath)) : k <= j
                         IN SameModule(lib.module, PkgInfo[rootPkgs[k]].Module)
                    ELSE SameModule(lib.module, m0)

\* a successful run that gave a Library of a vendored module the module of a
\* root package
C8_Witness ==
    /\ Succeeded
    /\ \E i \in 1..Len(libraries) :
        /\ libraries[i].LicensePath # ""
        /\ FirstMember(libraries[i]).Module.Dir = ""
        /\ libraries[i].module.Dir # ""
        /\ \E k \in 1..Len(rootPkgs) :
            SameModule(libraries[i].module, PkgInfo[rootPkgs[k]].Module)

-----------------------------------------------------------------------------
(* C9 *)

\* a package with a source directory that is not standard-library, a skipped
\* test binary or ignored, has no load errors and has no module info
MissingModule(p) ==
    /\ ~HasErrors(p)
    /\ ~isStdLib(PkgInfo[p])
    /\ ~(includeTests /\ isTestBinary(PkgInfo[p]))
    /\ ~Ignored(p)
    /\ HasFiles(PkgInfo[p])
    /\ PkgInfo[p].Module.isNil

-----------------------------------------------------------------------------
(* C10 *)

\* C10: on success the Packages list of a Library with a license path holds
\* the import paths in the order the traversal recorded them under that path.
C10_InsertionOrderKept ==
    Succeeded =>
        \A i \in 1..Len(libraries) :
            libraries[i].LicensePath # "" =>
                libraries[i].Packages =
                    [k \in 1..Len(pkgsByLicense[libraries[i].LicensePath]) |->
                        PkgInfo[pkgsByLicense[libraries[i].LicensePath][k]].PkgPath]

-----------------------------------------------------------------------------
(* C3 *)

\* the "/"-separated segments of a path
RECURSIVE Segments(_)
Segments(s) ==
    LET i == Index(s, "/") IN
    IF i = 0 THEN <<s>> ELSE <<SubSeq(s, 1, i - 1)>> \o Segments(SubSeq(s, i + 1, Len(s)))

\* how many leading segments every path of the list shares with the first
SharedSegments(ps) ==
    LET first == Segments(ps[1])
        ok(n) == \A k \in 1..Len(ps) :
                    /\ n <= Len(Segments(ps[k]))
                    /\ SubSeq(Segments(ps[k]), 1, n) = SubSeq(first, 1, n)
    IN CHOOSE n \in 0..Len(first) : ok(n) /\ \A m \in 0..Len(first) : ok(m) => m <= n

RECURSIVE Join(_)
Join(segs) ==
    IF segs = <<>> THEN ""
    ELSE IF Len(segs) = 1 THEN segs[1]
    ELSE segs[1] \o "/" \o Join(Tail(segs))

LongestCommonSegmentPrefix(ps) == Join(SubSeq(Segments(ps[1]), 1, SharedSegments(ps)))

\* C3: for every non-empty list of import paths commonAncestor returns the
\* longest prefix made of whole "/"-separated segments that all of them share.
C3_NameIsLongestSegmentPrefix ==
    (pc = "named" /\ Len(paths) >= 1) => name = LongestCommonSegmentPrefix(paths)

-----------------------------------------------------------------------------
(* C4 *)

\* C4: a second run of Libraries on the same packages and the same license
\* paths returns the same sequence of Libraries as the first.
C4_SameResultOnRerun ==
    (Succeeded /\ prev # <<>>) => libraries = prev[1]

-----------------------------------------------------------------------------
(* C6 *)

\* C6: when the loop of reportMain is over, reportData holds one entry per
\* Library that Libraries returned, in the same order.
C6_OneEntryPerLibrary ==
    pc = "reported" =>
        /\ Len(reportData) = Len(libraries)
        /\ \A i \in 1..Len(libraries) :
            i <= Len(reportData) => reportData[i].Name = LibName(libraries[i])

====
